---- MODULE Spec2Model ----
(***************************************************************************)
(* A model of examples/3d/subduction/mesh/generate_surfjou.py: the Slab    *)
(* 1.0 contour reader (SlabContoursFile), the contour processor            *)
(* (SlabExtender), the journal writer (JournalFile) and the orchestration  *)
(* (SurfaceApp.main).                                                      *)
(*                                                                         *)
(* Numbers are integers.  A point is a tuple <<x, y, z>>, a contour a      *)
(* sequence of points (a numpy array of shape (n, 3)), a contour set a     *)
(* function from integer depth keys to contours (a Python dict).  An       *)
(* operation that raises leaves the name of the exception in err.          *)
(***************************************************************************)
EXTENDS Integers, Sequences, FiniteSets, TLC

VARIABLES
    lines,          \* the input file of SlabContoursFile.read: a sequence of lines
    slab,           \* SlabContoursFile.contours
    contours,       \* SlabExtender.contours
    contoursUpDip,  \* SlabExtender.contoursUpDip: <<>> while the attribute is unset, <<dict>> once set
    file,           \* JournalFile.file: "None" or "open"
    out,            \* the commands written to the journal file so far
    pc,             \* the position in SurfaceApp.main, or "api" when the components are driven directly
    err,            \* the exception the last operation ended in, "none" if it returned
    ret,            \* the list the last selection query returned; in main, what is left of it to loop over
    prev,           \* SlabExtender.contours before the last operation
    call,           \* the last operation and its arguments
    globs           \* the module-level names the code reads without defining them

vars == <<lines, slab, contours, contoursUpDip, file, out, pc, err, ret, prev, call, globs>>

(***************************************************************************)
(* Bounds of the model.                                                    *)
(***************************************************************************)
MaxLen == 5          \* points in a contour
MaxStride == 3       \* decimation stride
MaxCalls == 2        \* successive applications of one operation

(***************************************************************************)
(* Python values.                                                          *)
(***************************************************************************)
\* Python's None used as a dict key (key = None in read).  Python 2 orders
\* None before every number, as this value is before every depth key.
None == -1000000

NoCall == [op |-> "none", n |-> 0, stride |-> 0, prevStride |-> 0, spacing |-> 0,
           elev |-> 0, cosS |-> 0, sinS |-> 0, tanNum |-> 0, tanDen |-> 1, dist |-> 0,
           points |-> <<>>]

EmptyDict == [k \in {} |-> <<>>]

\* The module namespace: stride (0 when the name is unbound), slabNormalDir
\* (<<>> when unbound) and extender (whether it is bound, to the
\* application's extender).  The file itself binds none of them.
NoGlobals == [stride |-> 0, slabNormalDir |-> <<>>, extender |-> FALSE]

Keys(d) == DOMAIN d

\* sorted(keys): the keys of a dict in ascending order.
RECURSIVE SortedSeq(_)
SortedSeq(S) ==
    IF S = {} THEN <<>>
    ELSE LET m == CHOOSE x \in S : \A y \in S : x <= y
         IN  <<m>> \o SortedSeq(S \ {m})

\* min(keys)
MinKey(S) == CHOOSE x \in S : \A y \in S : x <= y

Pow2(n) == 2 ^ n

(***************************************************************************)
(* SlabExtender._decimate                                                  *)
(***************************************************************************)
\* points[::stride]
StrideSlice(points, stride) ==
    [j \in 1..((Len(points) + stride - 1) \div stride) |-> points[(j - 1) * stride + 1]]

\* Whether the loop body raises: points[-1] of an empty array is an IndexError.
DecimateRaises(points, stride) ==
    /\ (Len(points) - 1) % stride # 0
    /\ Len(points) = 0

\* A stride that keeps every point: the mutant of DecimatePoints that forgets the endpoint.
DecimatePointsNoEndpoint(points, stride) == StrideSlice(points, stride)

\* A mutant of DecimatePoints that always appends the last point.
DecimatePointsAlwaysAppend(points, stride) ==
    IF Len(points) = 0 THEN StrideSlice(points, stride)
    ELSE Append(StrideSlice(points, stride), points[Len(points)])

\* The loop body of _decimate for one contour that does not raise.
DecimatePoints(points, stride) ==
    IF (Len(points) - 1) % stride # 0
    THEN Append(StrideSlice(points, stride), points[Len(points)])
    ELSE StrideSlice(points, stride)

\* _decimate(stride) on the dict d: every contour is replaced by its
\* decimation.  When a contour raises, the contours the loop has already
\* visited stay replaced; the order of a dict's items is not fixed by the
\* language, so every set of other contours may have been visited.
DecimateOutcomes(d, stride) ==
    LET bad == {k \in Keys(d) : DecimateRaises(d[k], stride)}
    IN  IF bad = {}
        THEN {[contours |-> [k \in Keys(d) |-> DecimatePoints(d[k], stride)], err |-> "none"]}
        ELSE {[contours |-> [k \in Keys(d) |->
                                IF k \in done THEN DecimatePoints(d[k], stride) ELSE d[k]],
               err |-> "IndexError"] : done \in SUBSET (Keys(d) \ bad)}

Decimate(stride) ==
    /\ prev' = contours
    /\ \E o \in DecimateOutcomes(contours, stride) :
          /\ contours' = o.contours
          /\ err' = o.err

(***************************************************************************)
(* SlabExtender._toXYZ                                                     *)
(***************************************************************************)
\* coordsys.geoToMesh, which is not part of this file: longitude and
\* latitude are replaced by projected x and y.
GeoToMesh(pt) == <<1000 * pt[1], 1000 * pt[2], pt[3]>>

\* points[:,2] *= 1.0e+3 after the projection.
ToXYZPoints(points) ==
    [j \in 1..Len(points) |-> <<GeoToMesh(points[j])[1], GeoToMesh(points[j])[2],
                                points[j][3] * 1000>>]

\* points[:,2] of an array without rows (numpy.array([]) has one dimension) is an IndexError.
ToXYZRaises(points) == Len(points) = 0

\* _toXYZ() on the dict d, contour by contour as _decimate.
ToXYZOutcomes(d) ==
    LET bad == {k \in Keys(d) : ToXYZRaises(d[k])}
    IN  IF bad = {}
        THEN {[contours |-> [k \in Keys(d) |-> ToXYZPoints(d[k])], err |-> "none"]}
        ELSE {[contours |-> [k \in Keys(d) |->
                                IF k \in done THEN ToXYZPoints(d[k]) ELSE d[k]],
               err |-> "IndexError"] : done \in SUBSET (Keys(d) \ bad)}

(***************************************************************************)
(* SlabExtender.addUpDipContours                                           *)
(*                                                                         *)
(* elev and dist stand for the products elevKm*1.0e+3 and                  *)
(* extendDistKm*1.0e+3; cosS, sinS and tanNum/tanDen for the values of     *)
(* math.cos(strike), math.sin(strike) and math.tan(dip).                   *)
(***************************************************************************)
\* The least n >= 0 with 2^n >= x, for x >= 1.
RECURSIVE CeilLog2From(_, _)
CeilLog2From(x, n) == IF Pow2(n) >= x THEN n ELSE CeilLog2From(x, n + 1)

\* The greatest k >= 0 with 2^k <= x, for x >= 1.
RECURSIVE FloorLog2From(_, _)
FloorLog2From(x, k) == IF Pow2(k + 1) > x THEN k ELSE FloorLog2From(x, k + 1)

Abs(a) == IF a < 0 THEN -a ELSE a

\* The exponents k for which math.log(2.0**k)/math.log(2.0) evaluates, in
\* double precision, to a value just above k (29.000000000000004 for k = 29),
\* among the powers of two the model's integers can hold.
LogQuotientAbove == {29}

\* (elevKm*1.0e+3-zTop)/math.tan(dip), for a tangent and a difference that
\* are not zero.  The model keeps whole units: a quotient that is not whole
\* is cut toward zero (only main's default dip gives one; the directly
\* driven calls use exact quotients).
DistHoriz(elev, zTop, tanNum, tanDen) ==
    LET a == (elev - zTop) * tanDen
        q == Abs(a) \div Abs(tanNum)
    IN  IF (a < 0) = (tanNum < 0) THEN q ELSE -q

\* Whether math.log's argument extendDist/distHoriz + 1 is <= 0 (math.log
\* then raises ValueError).
LogArgNonPositive(dist, distHoriz) ==
    \/ dist + distHoriz = 0
    \/ (dist + distHoriz < 0) # (distHoriz < 0)

\* int(math.ceil(math.log(extendDist/distHoriz + 1)/math.log(2.0))), for a
\* positive argument a/b of the logarithm: zero or negative when a < b.
NumContours(dist, distHoriz) ==
    LET a == Abs(dist + distHoriz)
        b == Abs(distHoriz)
    IN  IF a >= b
        THEN LET n == CeilLog2From((a + b - 1) \div b, 0)
             IN  IF n \in LogQuotientAbove /\ a % b = 0 /\ a \div b = Pow2(n) THEN n + 1 ELSE n
        ELSE -FloorLog2From(b \div a, 0)

\* The shift left out of the copy: a mutant.
UpDipContourNoShift(contourTop, i, dx, dy, elev) ==
    [j \in 1..Len(contourTop) |-> <<contourTop[j][1] + dx, contourTop[j][2] + dy, elev>>]

\* The copy of the reference contour stored under key -i.
UpDipContour(contourTop, i, dx, dy, elev) ==
    [j \in 1..Len(contourTop) |->
        <<contourTop[j][1] + Pow2(i) * dx, contourTop[j][2] + Pow2(i) * dy, elev>>]

\* distHoriz where it is no finite number other than zero.  zTop is an
\* element of a numpy array, a numpy.float64, and so are the quotients it
\* enters: a division by zero gives an infinity or a nan (and a
\* RuntimeWarning), no ZeroDivisionError.  math.tan(0.0) is 0.0, and a zero
\* quotient has the sign of the tangent.
DistHorizKind(elev, zTop, tanNum) ==
    IF tanNum = 0
    THEN IF elev = zTop THEN "nan" ELSE IF elev > zTop THEN "+inf" ELSE "-inf"
    ELSE IF elev = zTop THEN (IF tanNum > 0 THEN "+0" ELSE "-0")
    ELSE "finite"

\* The argument extendDist/distHoriz + 1 of math.log for such a distHoriz:
\* 1.0 for an infinite distHoriz, an infinity or a nan for a zero one.
LogArgKind(dist, kind) ==
    CASE kind = "nan" -> "nan"
      [] kind \in {"+inf", "-inf"} -> "one"
      [] kind \in {"+0", "-0"} /\ dist = 0 -> "nan"
      [] kind \in {"+0", "-0"} /\ (dist > 0) = (kind = "+0") -> "+inf"
      [] OTHER -> "-inf"

\* The exception addUpDipContours ends in, "none" if it returns.
AddUpDipContoursErr(elev, tanNum, tanDen, dist) ==
    IF Keys(contours) = {} THEN "ValueError"                         \* min() of an empty sequence
    ELSE LET contourTop == contours[MinKey(Keys(contours))]
         IN  IF Len(contourTop) = 0 THEN "IndexError"                \* contourTop[0]
             ELSE LET kind == DistHorizKind(elev, contourTop[1][3], tanNum)
                  IN  IF kind # "finite"
                      THEN CASE LogArgKind(dist, kind) = "one" -> "none"          \* numContours = 0
                             [] LogArgKind(dist, kind) = "+inf" -> "OverflowError" \* int(inf)
                             [] LogArgKind(dist, kind) = "-inf" -> "ValueError"    \* math.log(-inf)
                             [] OTHER -> "ValueError"                              \* int(nan)
                      ELSE IF LogArgNonPositive(dist, DistHoriz(elev, contourTop[1][3], tanNum, tanDen))
                      THEN "ValueError"                                            \* math.log(x), x <= 0
                      ELSE "none"

\* The dict addUpDipContours builds when it returns: empty for an infinite
\* distHoriz (the logarithm of 1.0 is 0.0, the loop does not run).
UpDipDict(elev, cosS, sinS, tanNum, tanDen, dist) ==
    LET contourTop == contours[MinKey(Keys(contours))]
    IN  IF DistHorizKind(elev, contourTop[1][3], tanNum) # "finite"
        THEN EmptyDict
        ELSE LET distHoriz  == DistHoriz(elev, contourTop[1][3], tanNum, tanDen)
                 dx         == -distHoriz * cosS
                 dy         == distHoriz * sinS
                 numContours == NumContours(dist, distHoriz)
             IN  [k \in {-i : i \in 0..(numContours - 1)} |->
                       UpDipContour(contourTop, -k, dx, dy, elev)]

AddUpDipContours(elev, cosS, sinS, tanNum, tanDen, dist) ==
    LET e == AddUpDipContoursErr(elev, tanNum, tanDen, dist)
    IN  /\ err' = e
        /\ contoursUpDip' = IF e = "none"
                            THEN <<UpDipDict(elev, cosS, sinS, tanNum, tanDen, dist)>>
                            ELSE contoursUpDip
        /\ UNCHANGED contours

(***************************************************************************)
(* SlabExtender.getContours, getUpDipContours, getAllContours              *)
(***************************************************************************)
\* The values of dict d under the keys of keySeq, in that order.
ValuesAt(d, keySeq) == [j \in 1..Len(keySeq) |-> d[keySeq[j]]]

\* A query returns a list of the stored arrays themselves, not of copies:
\* an element names the dict (the synthetic one or the real one) and the key.
Ref(up, key) == [up |-> up, key |-> key]

RefsAt(up, keySeq) == [j \in 1..Len(keySeq) |-> Ref(up, keySeq[j])]

\* The array an element of a returned list is.
Deref(r) == IF r.up THEN contoursUpDip[1][r.key] ELSE contours[r.key]

\* sorted() in reverse: a mutant.
SortedSeqDescending(S) ==
    LET asc == SortedSeq(S) IN [j \in 1..Len(asc) |-> asc[Len(asc) + 1 - j]]

\* The keys getContours selects: 0 == k % spacingKm.
SelectedKeys(d, spacing) == {k \in Keys(d) : k % spacing = 0}

\* getContours raises a TypeError on the key None (None % spacingKm).
GetContoursErr(spacing) == IF None \in Keys(contours) THEN "TypeError" ELSE "none"

GetContours(spacing) == RefsAt(FALSE, SortedSeq(SelectedKeys(contours, spacing)))

\* getUpDipContours raises an AttributeError while contoursUpDip is unset.
GetUpDipContoursErr == IF contoursUpDip = <<>> THEN "AttributeError" ELSE "none"

UpDipKeyOrder(S) == SortedSeq(S)

GetUpDipContours == RefsAt(TRUE, UpDipKeyOrder(Keys(contoursUpDip[1])))

GetAllContoursErr(spacing) ==
    IF GetUpDipContoursErr # "none" THEN GetUpDipContoursErr ELSE GetContoursErr(spacing)

\* The real contours first: a mutant.
GetAllContoursRealFirst(spacing) == GetContours(spacing) \o GetUpDipContours

GetAllContours(spacing) == GetUpDipContours \o GetContours(spacing)

(***************************************************************************)
(* SlabContoursFile.read                                                   *)
(*                                                                         *)
(* A line is the sequence of its whitespace-separated words; a word is the *)
(* literal END, an integer numeral, a decimal numeral (accepted by float() *)
(* but not by int()) or another word (accepted by neither).                *)
(***************************************************************************)
WordEnd == [kind |-> "END", v |-> 0]
WordInt(v) == [kind |-> "int", v |-> v]
WordDec(v) == [kind |-> "dec", v |-> v]
WordJunk == [kind |-> "junk", v |-> 0]

\* line.strip() == "END"
IsEndLine(line) == line = <<WordEnd>>

\* len(line.split()) == 1
IsKeyLine(line) == Len(line) = 1

\* int(line) and float(word) raise a ValueError on a word they cannot parse.
IntParses(word) == word.kind = "int"
FloatParses(word) == word.kind \in {"int", "dec"}

\* numpy.array(points, dtype=numpy.float64) raises a ValueError on rows of different lengths.
Ragged(points) == \E i, j \in 1..Len(points) : Len(points[i]) # Len(points[j])

\* The state of the loop of read before any line.
ReadStart == [contours |-> EmptyDict, points |-> <<>>, key |-> None, err |-> "none"]

\* One iteration of the loop of read.
ReadLine(st, line) ==
    IF st.err # "none" THEN st
    ELSE IF IsEndLine(line)
    THEN IF Ragged(st.points) THEN [st EXCEPT !.err = "ValueError"]
         ELSE [st EXCEPT !.contours = [k \in Keys(st.contours) \cup {st.key} |->
                                          IF k = st.key THEN st.points ELSE st.contours[k]],
                         !.points = <<>>]
    ELSE IF IsKeyLine(line)
    THEN IF IntParses(line[1]) THEN [st EXCEPT !.key = line[1].v]
         ELSE [st EXCEPT !.err = "ValueError"]
    ELSE IF \A i \in 1..Len(line) : FloatParses(line[i])
    THEN [st EXCEPT !.points = Append(st.points, [i \in 1..Len(line) |-> line[i].v])]
    ELSE [st EXCEPT !.err = "ValueError"]

RECURSIVE ReadLines(_, _, _)
ReadLines(st, ls, i) == IF i > Len(ls) THEN st ELSE ReadLines(ReadLine(st, ls[i]), ls, i + 1)

\* read(): self.contours is assigned only when no line raised.
Read ==
    LET st == ReadLines(ReadStart, lines, 1)
    IN  /\ err' = st.err
        /\ slab' = IF st.err = "none" THEN st.contours ELSE slab

(***************************************************************************)
(* JournalFile                                                             *)
(*                                                                         *)
(* out is the sequence of the lines written; a vertex line carries its     *)
(* point, an export line the name of the ACIS file.                        *)
(***************************************************************************)
Cmd(c) == [cmd |-> c, pt |-> <<>>, name |-> ""]
Vertex(pt) == [cmd |-> "create vertex", pt |-> pt, name |-> ""]
Export(name) == [cmd |-> "export acis", pt |-> <<>>, name |-> name]

\* A write to a file that is None raises an AttributeError.
FileErr == IF file = "None" THEN "AttributeError" ELSE "none"

\* writeHeader(): opens the file for writing (which empties it) unless it is
\* open; open() may raise an IOError (an unwritable path).
WriteHeader ==
    \/ /\ file' = "open"
       /\ out' = (IF file = "None" THEN <<>> ELSE out) \o <<Cmd("# header")>>
       /\ err' = "none"
    \/ /\ file = "None"
       /\ err' = "IOError"
       /\ UNCHANGED <<file, out>>

\* newSurface()
NewSurface ==
    /\ err' = FileErr
    /\ out' = IF FileErr = "none" THEN out \o <<Cmd("# New surface."), Cmd("reset")>> ELSE out
    /\ UNCHANGED file

\* skinSurface(filename)
SkinSurface(filename) ==
    /\ err' = FileErr
    /\ out' = IF FileErr = "none"
              THEN out \o <<Cmd("create surface skin curve all"), Cmd("delete curve all"),
                            Export(filename)>>
              ELSE out
    /\ UNCHANGED file

\* The exception addContour ends in: points[0] of an empty sequence is an
\* IndexError, a point that is not a triple a TypeError of the % formatting.
AddContourErr(points) ==
    IF file = "None" THEN "AttributeError"
    ELSE IF Len(points) = 0 THEN "IndexError"
    ELSE IF \E j \in 1..Len(points) : Len(points[j]) # 3 THEN "TypeError"
    ELSE "none"

\* What addContour writes before it returns or raises.
AddContourWritten(points) ==
    IF file = "None" THEN <<>>
    ELSE IF Len(points) = 0 THEN <<Cmd("# Contour")>>
    ELSE LET bad == {j \in 1..Len(points) : Len(points[j]) # 3}
             firstBad == IF bad = {} THEN Len(points) + 1 ELSE MinKey(bad)
             written == [j \in 1..(firstBad - 1) |-> Vertex(points[j])]
         IN  IF firstBad = 1 THEN <<Cmd("# Contour")>>
             ELSE IF firstBad <= Len(points)
             THEN <<Cmd("# Contour"), written[1], Cmd("${pBegin=Id('vertex')}")>>
                  \o SubSeq(written, 2, Len(written))
             ELSE <<Cmd("# Contour"), written[1], Cmd("${pBegin=Id('vertex')}")>>
                  \o SubSeq(written, 2, Len(written))
                  \o <<Cmd("${pEnd=Id('vertex')}"),
                       Cmd("create curve spline vertex {pBegin} to {pEnd} delete")>>

\* addContour(points)
AddContour(points) ==
    /\ err' = AddContourErr(points)
    /\ out' = out \o AddContourWritten(points)
    /\ UNCHANGED file

\* close()
Close ==
    /\ err' = FileErr
    /\ file' = "None"
    /\ UNCHANGED out

(***************************************************************************)
(* The decimation of a contour set, driven directly: _decimate is applied  *)
(* to every contour set of up to two contours of 0..MaxLen distinct points *)
(* with every stride 1..MaxStride, up to MaxCalls times in a row.          *)
(***************************************************************************)
DecimateKeys == {10, 20}
Strides == 1..MaxStride

\* A contour of n distinct points at depth key: point i is <<i, 10 i, key>>.
MkContour(key, n) == [i \in 1..n |-> <<i, 10 * i, key>>]

ContourSetsOver(keys, lens) ==
    UNION {{[k \in K |-> MkContour(k, len[k])] : len \in [K -> lens]} :
              K \in (SUBSET keys) \ {{}}}

InitDecimate ==
    /\ contours \in ContourSetsOver(DecimateKeys, 0..MaxLen)
    /\ prev = contours
    /\ lines = <<>>
    /\ slab = EmptyDict
    /\ contoursUpDip = <<>>
    /\ file = "None"
    /\ out = <<>>
    /\ pc = "api"
    /\ err = "none"
    /\ ret = <<>>
    /\ call = NoCall
    /\ globs = NoGlobals

DecimateCall ==
    /\ pc = "api"
    /\ err = "none"
    /\ call.n < MaxCalls
    /\ \E stride \in Strides :
          /\ Decimate(stride)
          /\ call' = [NoCall EXCEPT !.op = "decimate", !.n = call.n + 1,
                                    !.stride = stride, !.prevStride = call.stride]
    /\ UNCHANGED <<lines, slab, contoursUpDip, file, out, pc, ret, globs>>

NextDecimate == DecimateCall

SpecDecimate == InitDecimate /\ [][NextDecimate]_vars

CeilDiv(a, b) == (a + b - 1) \div b

Min(a, b) == IF a <= b THEN a ELSE b

\* C1: after decimate with stride s, every contour that had n >= 1 points
\* holds exactly the points at the original indices 0, s, 2s, ... in order,
\* followed by the original last point iff n-1 is not a multiple of s: its
\* length is ceil((n-1)/s) + 1, its j-th point is the original point at
\* index min(j s, n-1), so first and last are kept and the last point
\* occurs once.
C1_DecimateKeepsStrideIndicesAndEndpoints ==
    (call.op = "decimate" /\ err = "none") =>
        \A k \in Keys(prev) :
            LET n == Len(prev[k])
                s == call.stride
                d == contours[k]
            IN  n >= 1 =>
                  /\ Len(d) = CeilDiv(n - 1, s) + 1
                  /\ \A j \in 1..Len(d) : d[j] = prev[k][Min((j - 1) * s, n - 1) + 1]
                  /\ d[1] = prev[k][1]
                  /\ d[Len(d)] = prev[k][n]
                  /\ Cardinality({j \in 1..Len(d) : d[j] = prev[k][n]}) = 1

\* A 5-point contour decimated with stride 2 holds the points of indices 0, 2, 4;
\* and a 5-point contour decimated with stride 3 holds 0, 3 and the appended 4.
C1_Witness ==
    /\ call.op = "decimate" /\ err = "none" /\ call.n = 1
    /\ 10 \in Keys(prev) /\ Len(prev[10]) = 5
    /\ \/ call.stride = 2 /\ contours[10] = <<prev[10][1], prev[10][3], prev[10][5]>>
       \/ call.stride = 3 /\ contours[10] = <<prev[10][1], prev[10][4], prev[10][5]>>

\* C10 as stated: a second decimation with the same stride changes no contour.
C10_DecimateIdempotent ==
    (call.op = "decimate" /\ err = "none" /\ call.n >= 2 /\ call.stride = call.prevStride)
        => contours = prev

\* C10 amended: a second decimation with the same stride s leaves a contour
\* unchanged exactly when s = 1 or the once-decimated contour has at most
\* two points; otherwise it removes further points, still keeping the
\* first and the last.
C10_SecondDecimateFixedIffShort ==
    (call.op = "decimate" /\ err = "none" /\ call.n >= 2 /\ call.stride = call.prevStride)
        => \A k \in Keys(prev) :
              /\ (contours[k] = prev[k]) <=> (call.stride = 1 \/ Len(prev[k]) <= 2)
              /\ Len(contours[k]) <= Len(prev[k])
              /\ Len(prev[k]) >= 1 =>
                    /\ contours[k][1] = prev[k][1]
                    /\ contours[k][Len(contours[k])] = prev[k][Len(prev[k])]

\* A contour of 3 points left by a first decimation with stride 2 loses its
\* middle point in the second.
C10_Witness ==
    /\ call.op = "decimate" /\ err = "none" /\ call.n = 2
    /\ call.stride = 2 /\ call.prevStride = 2
    /\ 10 \in Keys(prev) /\ Len(prev[10]) = 3 /\ Len(contours[10]) = 2


(***************************************************************************)
(* The up-dip extension and the selection queries, driven directly on      *)
(* every projected contour set over ExtendKeys with contours of            *)
(* 0..MaxRefLen points: addUpDipContours with every parameter combination  *)
(* whose distHoriz is a whole number, then one query.                      *)
(***************************************************************************)
MaxRefLen == 2
ExtendKeys == {10, 15, 20}
Elevations == {-12, -10, -8, 2}
Strikes == {<<1, 0>>, <<0, 1>>}                \* <<cos, sin>> of the strike
Tangents == {<<-1, 1>>, <<0, 1>>, <<1, 1>>, <<2, 1>>}   \* the tangent of the dip as <<numerator, denominator>>
ExtendDists == {1, 3, 7, 10, 536870911}
Spacings == {5, 10, 20}

\* A projected contour of n distinct points at depth -key.
MkProjected(key, n) == [i \in 1..n |-> <<100 * i + key, 7 * i, -key>>]

ProjectedSetsOver(keys, lens) ==
    UNION {{[k \in K |-> MkProjected(k, len[k])] : len \in [K -> lens]} :
              K \in (SUBSET keys) \ {{}}}

InitExtend ==
    /\ contours \in ProjectedSetsOver(ExtendKeys, 0..MaxRefLen)
    /\ prev = contours
    /\ lines = <<>>
    /\ slab = EmptyDict
    /\ contoursUpDip = <<>>
    /\ file = "None"
    /\ out = <<>>
    /\ pc = "api"
    /\ err = "none"
    /\ ret = <<>>
    /\ call = NoCall
    /\ globs = NoGlobals

\* The reference contour's first depth, where it has one.
ZTop(d) == d[MinKey(Keys(d))][1][3]

HasZTop(d) == Keys(d) # {} /\ Len(d[MinKey(Keys(d))]) > 0

AddUpDipContoursCall ==
    /\ pc = "api"
    /\ call.op = "none"
    /\ \E elev \in Elevations, strike \in Strikes, tangent \in Tangents, dist \in ExtendDists :
          /\ (HasZTop(contours) /\ tangent[1] # 0)
                => ((elev - ZTop(contours)) * tangent[2]) % Abs(tangent[1]) = 0
          /\ AddUpDipContours(elev, strike[1], strike[2], tangent[1], tangent[2], dist)
          /\ call' = [NoCall EXCEPT !.op = "addUpDipContours", !.n = call.n + 1, !.elev = elev,
                                    !.cosS = strike[1], !.sinS = strike[2],
                                    !.tanNum = tangent[1], !.tanDen = tangent[2], !.dist = dist]
    /\ prev' = contours
    /\ UNCHANGED <<lines, slab, file, out, pc, ret, globs>>

QueryEnabled == pc = "api" /\ call.op \in {"none", "addUpDipContours"}

GetContoursCall ==
    /\ QueryEnabled
    /\ \E spacing \in Spacings :
          /\ err' = GetContoursErr(spacing)
          /\ ret' = IF GetContoursErr(spacing) = "none" THEN GetContours(spacing) ELSE <<>>
          /\ call' = [NoCall EXCEPT !.op = "getContours", !.n = call.n + 1, !.spacing = spacing]
    /\ prev' = contours
    /\ UNCHANGED <<lines, slab, contours, contoursUpDip, file, out, pc, globs>>

GetUpDipContoursCall ==
    /\ QueryEnabled
    /\ err' = GetUpDipContoursErr
    /\ ret' = IF GetUpDipContoursErr = "none" THEN GetUpDipContours ELSE <<>>
    /\ call' = [NoCall EXCEPT !.op = "getUpDipContours", !.n = call.n + 1]
    /\ prev' = contours
    /\ UNCHANGED <<lines, slab, contours, contoursUpDip, file, out, pc, globs>>

GetAllContoursCall ==
    /\ QueryEnabled
    /\ \E spacing \in Spacings :
          /\ err' = GetAllContoursErr(spacing)
          /\ ret' = IF GetAllContoursErr(spacing) = "none" THEN GetAllContours(spacing) ELSE <<>>
          /\ call' = [NoCall EXCEPT !.op = "getAllContours", !.n = call.n + 1, !.spacing = spacing]
    /\ prev' = contours
    /\ UNCHANGED <<lines, slab, contours, contoursUpDip, file, out, pc, globs>>

NextExtend ==
    \/ AddUpDipContoursCall
    \/ GetContoursCall
    \/ GetUpDipContoursCall
    \/ GetAllContoursCall

SpecExtend == InitExtend /\ [][NextExtend]_vars

\* The arguments of the last addUpDipContours call, and what the claims say of them.
CallDistHoriz == DistHoriz(call.elev, ZTop(prev), call.tanNum, call.tanDen)
CallDx == -CallDistHoriz * call.cosS
CallDy == CallDistHoriz * call.sinS
AddUpDipReturned == call.op = "addUpDipContours" /\ err = "none"
NumSynthetic == Cardinality(Keys(contoursUpDip[1]))

\* C2: for a finite distHoriz > 0 and maxDistance > 0 the number n of
\* synthetic contours is the least one that reaches:
\* (2^n - 1) distHoriz >= maxDistance and (2^(n-1) - 1) distHoriz < maxDistance.
C2_NumContoursMinimalReach ==
    (AddUpDipReturned /\ call.tanNum # 0 /\ CallDistHoriz > 0 /\ call.dist > 0) =>
        /\ NumSynthetic >= 1
        /\ (Pow2(NumSynthetic) - 1) * CallDistHoriz >= call.dist
        /\ (Pow2(NumSynthetic - 1) - 1) * CallDistHoriz < call.dist

\* C3: after addUpDipContours the synthetic set has exactly the keys
\* 0, -1, ..., -(n-1); the contour under -i has the reference contour's
\* points in order, each shifted by (2^i dx, 2^i dy) and set to the
\* requested elevation; the real contours are unchanged.
C3_SyntheticContoursShiftedCopies ==
    AddUpDipReturned =>
        LET ref == prev[MinKey(Keys(prev))]
            up  == contoursUpDip[1]
        IN  /\ Keys(up) = {-i : i \in 0..(NumSynthetic - 1)}
            /\ \A i \in 0..(NumSynthetic - 1) :
                  /\ Len(up[-i]) = Len(ref)
                  /\ \A j \in 1..Len(ref) :
                        /\ up[-i][j][1] = ref[j][1] + Pow2(i) * CallDx
                        /\ up[-i][j][2] = ref[j][2] + Pow2(i) * CallDy
                        /\ up[-i][j][3] = call.elev
            /\ contours = prev

\* Three synthetic contours of a two-point reference contour, shifted by dx, 2 dx and 4 dx.
C3_Witness ==
    /\ AddUpDipReturned
    /\ NumSynthetic = 3
    /\ Len(prev[MinKey(Keys(prev))]) = 2
    /\ CallDx # 0
    /\ contoursUpDip[1][-2][2][1] = prev[MinKey(Keys(prev))][2][1] + 4 * CallDx

\* C7: whenever distHoriz <= 0 (minus infinity for a zero tangent and an
\* elevation below the reference contour) or the argument of the logarithm
\* is <= 0, addUpDipContours ends in an error and never returns a
\* synthetic set.
C7_NonPositiveDistanceRaises ==
    (call.op = "addUpDipContours" /\ HasZTop(prev)
        /\ IF call.tanNum = 0
           THEN call.elev < ZTop(prev)
           ELSE CallDistHoriz <= 0 \/ LogArgNonPositive(call.dist, CallDistHoriz))
        => err # "none"

\* C4 as stated: getUpDipContours returns the synthetic contours with key 0
\* first, then -1, -2, ...
C4_UpDipKeyZeroFirst ==
    (call.op = "getUpDipContours" /\ err = "none") =>
        /\ Len(ret) = NumSynthetic
        /\ \A i \in 0..(NumSynthetic - 1) : ret[i + 1] = Ref(TRUE, -i)

\* C4 amended: getUpDipContours returns every synthetic contour exactly
\* once in ascending key order -(n-1), ..., -1, 0: the contour of index 0,
\* the one closest to the reference contour, comes last.
C4_UpDipAscendingKeyZeroLast ==
    (call.op = "getUpDipContours" /\ err = "none") =>
        /\ Len(ret) = NumSynthetic
        /\ \A i \in 0..(NumSynthetic - 1) : ret[NumSynthetic - i] = Ref(TRUE, -i)

\* Three synthetic contours returned, the farthest first.
C4_Witness ==
    /\ call.op = "getUpDipContours" /\ err = "none"
    /\ NumSynthetic = 3
    /\ ret = <<Ref(TRUE, -2), Ref(TRUE, -1), Ref(TRUE, 0)>>
    /\ Deref(ret[1]) # Deref(ret[3])

\* The keys of the real contours that are exact multiples of spacing, ascending.
RealSelection(spacing) == SortedSeq({k \in Keys(contours) : \E m \in 0..k : m * spacing = k})

\* C5: getAllContours(spacing) returns getUpDipContours() followed by the
\* real contours whose key is an exact multiple of spacing in ascending
\* key order, getContours(spacing) returns the latter, and neither query
\* changes the real or the synthetic set.
C5_AllContoursSyntheticThenReal ==
    [][/\ (pc = "api" /\ call'.op = "getContours" /\ err' = "none") =>
             LET sel == RealSelection(call'.spacing)
             IN  /\ Len(ret') = Len(sel)
                 /\ \A j \in 1..Len(sel) : ret'[j] = Ref(FALSE, sel[j])
       /\ (pc = "api" /\ call'.op = "getAllContours" /\ err' = "none") =>
             LET n == NumSynthetic
                 sel == RealSelection(call'.spacing)
             IN  /\ Len(ret') = n + Len(sel)
                 /\ \A j \in 1..n : ret'[j] = Ref(TRUE, j - n)
                 /\ \A j \in 1..Len(sel) : ret'[n + j] = Ref(FALSE, sel[j])
       /\ (pc = "api" /\ call'.op \in {"getContours", "getUpDipContours", "getAllContours"}) =>
             /\ contours' = contours
             /\ contoursUpDip' = contoursUpDip]_vars

\* Real contours 10, 15, 20 and one synthetic contour: getAllContours(10)
\* returns [updip_0, real_10, real_20].
C5_Witness ==
    /\ call.op = "getAllContours" /\ err = "none" /\ call.spacing = 10
    /\ Keys(contours) = {10, 15, 20}
    /\ Keys(contoursUpDip[1]) = {0}
    /\ Len(contours[10]) = 2
    /\ ret = <<Ref(TRUE, 0), Ref(FALSE, 10), Ref(FALSE, 20)>>


(***************************************************************************)
(* The reader, driven directly on every file of up to MaxLines lines over  *)
(* LineAlphabet.                                                           *)
(***************************************************************************)
MaxLines == 4

PointLine(x, y, z) == <<WordDec(x), WordDec(y), WordDec(z)>>

LineAlphabet ==
    {<<WordEnd>>, <<WordInt(10)>>, <<WordInt(20)>>, <<WordJunk>>,
     PointLine(1, 2, 10), PointLine(2, 3, 10)}

RECURSIVE SeqsUpTo(_, _)
SeqsUpTo(S, n) ==
    IF n = 0 THEN {<<>>}
    ELSE LET shorter == SeqsUpTo(S, n - 1)
         IN  shorter \cup {Append(q, x) : q \in {r \in shorter : Len(r) = n - 1}, x \in S}

InitRead ==
    /\ lines \in SeqsUpTo(LineAlphabet, MaxLines)
    /\ slab = EmptyDict
    /\ contours = EmptyDict
    /\ prev = EmptyDict
    /\ contoursUpDip = <<>>
    /\ file = "None"
    /\ out = <<>>
    /\ pc = "api"
    /\ err = "none"
    /\ ret = <<>>
    /\ call = NoCall
    /\ globs = NoGlobals

ReadCall ==
    /\ pc = "api"
    /\ call.op = "none"
    /\ Read
    /\ call' = [NoCall EXCEPT !.op = "read", !.n = call.n + 1]
    /\ UNCHANGED <<lines, contours, contoursUpDip, file, out, pc, ret, prev, globs>>

NextRead == ReadCall

SpecRead == InitRead /\ [][NextRead]_vars

\* Line i is an END line met while no depth key is open: no key line lies
\* between it and the previous END line (or the start of the file).
EndWithoutOpenKey(i) ==
    /\ IsEndLine(lines[i])
    /\ \A j \in 1..(i - 1) :
          (IsKeyLine(lines[j]) /\ ~IsEndLine(lines[j]))
              => \E m \in (j + 1)..(i - 1) : IsEndLine(lines[m])

\* C8: read fails, and yields no contour set, whenever an END line is met
\* while no depth key is open; it never commits a point list under an
\* absent key.
C8_EndWithoutKeyFails ==
    (call.op = "read" /\ \E i \in 1..Len(lines) : EndWithoutOpenKey(i))
        => (err # "none" /\ slab = EmptyDict)

(***************************************************************************)
(* The journal writer, driven directly: up to MaxEmitCalls calls of its    *)
(* methods in any order, addContour with contours of 0..MaxEmitLen points. *)
(***************************************************************************)
MaxEmitCalls == 4
MaxEmitLen == 3
AcisNames == {"surf_slabtop.sat"}

InitEmit ==
    /\ lines = <<>>
    /\ slab = EmptyDict
    /\ contours = EmptyDict
    /\ prev = EmptyDict
    /\ contoursUpDip = <<>>
    /\ file = "None"
    /\ out = <<>>
    /\ pc = "api"
    /\ err = "none"
    /\ ret = <<>>
    /\ call = NoCall
    /\ globs = NoGlobals

EmitEnabled == pc = "api" /\ call.n < MaxEmitCalls

WriteHeaderCall ==
    /\ EmitEnabled
    /\ WriteHeader
    /\ call' = [NoCall EXCEPT !.op = "writeHeader", !.n = call.n + 1]
    /\ UNCHANGED <<lines, slab, contours, contoursUpDip, pc, ret, prev, globs>>

NewSurfaceCall ==
    /\ EmitEnabled
    /\ NewSurface
    /\ call' = [NoCall EXCEPT !.op = "newSurface", !.n = call.n + 1]
    /\ UNCHANGED <<lines, slab, contours, contoursUpDip, pc, ret, prev, globs>>

AddContourCall ==
    /\ EmitEnabled
    /\ \E n \in 0..MaxEmitLen :
          /\ AddContour(MkProjected(10, n))
          /\ call' = [NoCall EXCEPT !.op = "addContour", !.n = call.n + 1,
                                    !.points = MkProjected(10, n)]
    /\ UNCHANGED <<lines, slab, contours, contoursUpDip, pc, ret, prev, globs>>

SkinSurfaceCall ==
    /\ EmitEnabled
    /\ \E name \in AcisNames : SkinSurface(name)
    /\ call' = [NoCall EXCEPT !.op = "skinSurface", !.n = call.n + 1]
    /\ UNCHANGED <<lines, slab, contours, contoursUpDip, pc, ret, prev, globs>>

CloseCall ==
    /\ EmitEnabled
    /\ Close
    /\ call' = [NoCall EXCEPT !.op = "close", !.n = call.n + 1]
    /\ UNCHANGED <<lines, slab, contours, contoursUpDip, pc, ret, prev, globs>>

NextEmit ==
    \/ WriteHeaderCall
    \/ NewSurfaceCall
    \/ AddContourCall
    \/ SkinSurfaceCall
    \/ CloseCall

SpecEmit == InitEmit /\ [][NextEmit]_vars

\* The lines a step appended to the journal file.
Appended == SubSeq(out', Len(out) + 1, Len(out'))

IsVertexOrCurve(c) == c.cmd \in {"create vertex", "create curve spline vertex {pBegin} to {pEnd} delete"}

\* C6: on an open stream, addContour with 0 or 1 points ends in an error
\* and writes no vertex and no spline-curve command; with 2 or more points
\* it writes one vertex command per point in input order followed by
\* exactly one spline-curve command.
C6_AddContourNeedsTwoPoints ==
    [][(call'.op = "addContour" /\ file = "open") =>
          LET points == call'.points
              cmds == [j \in {i \in 1..Len(Appended) : IsVertexOrCurve(Appended[i])} |-> Appended[j]]
              written == ValuesAt(cmds, SortedSeq(DOMAIN cmds))
          IN  IF Len(points) < 2
              THEN err' # "none" /\ written = <<>>
              ELSE /\ err' = "none"
                   /\ Len(written) = Len(points) + 1
                   /\ \A j \in 1..Len(points) : written[j] = Vertex(points[j])
                   /\ written[Len(points) + 1].cmd
                         = "create curve spline vertex {pBegin} to {pEnd} delete"]_vars


(***************************************************************************)
(* SurfaceApp.main                                                         *)
(*                                                                         *)
(* One step per call main makes on a component; a step that raises ends    *)
(* the run (pc = "failed"), main catches nothing.  The runs start from     *)
(* every file of MainFiles and every binding of the names main and         *)
(* initialize read from the module namespace.                              *)
(***************************************************************************)
\* The defaults of addUpDipContours and getContours, and main's literals.
DefaultElev == 1000            \* elevKm=1.0, times 1.0e+3
DefaultExtendDist == 600000    \* extendDistKm=600.0, times 1.0e+3
DefaultTanNum == 2239          \* math.tan(10.0*math.pi/180.0) = 0.17632698070846498, as DefaultTanNum/DefaultTanDen
DefaultTanDen == 12698         \* 2239/12698 = 0.17632698062...: distHoriz is the code's, cut to whole units
DefaultSpacing == 10           \* spacingKm=10.0
SlabThickness == 50000         \* slabThicknessKm*1.0e+3
SplayKey == 15                 \* extender.contours[15]
SplayDrop == 5000              \* contour[:,2] -= 5.0e+3
SplayElev == 1000              \* contour[:,2] = 1.0e+3
SplayShift == 15000            \* contour[:,0] -= 15.0e+3

KeyLine(k) == <<WordInt(k)>>
EndLine == <<WordEnd>>

MainFiles ==
    { \* contours 10 and 15 below sea level: the run can reach close()
      <<KeyLine(10), PointLine(1, 2, -10), PointLine(2, 3, -10), EndLine,
        KeyLine(15), PointLine(1, 2, -15), PointLine(2, 3, -15), PointLine(3, 4, -15), EndLine>>,
      \* no contour 15
      <<KeyLine(10), PointLine(1, 2, -10), PointLine(2, 3, -10), EndLine,
        KeyLine(20), PointLine(1, 2, -20), PointLine(2, 3, -20), EndLine>>,
      \* depths above the up-dip elevation
      <<KeyLine(10), PointLine(1, 2, 10), PointLine(2, 3, 10), EndLine>>,
      \* END with no key line before it
      <<PointLine(1, 2, -10), PointLine(2, 3, -10), EndLine>>,
      \* a contour without points
      <<KeyLine(15), PointLine(1, 2, -15), PointLine(2, 3, -15), EndLine, KeyLine(20), EndLine>>,
      \* a word that is no number
      <<KeyLine(10), <<WordJunk>>>>,
      \* no line at all
      <<>> }

Namespaces ==
    [stride : 0..MaxStride, slabNormalDir : {<<>>, <<0, 0, 1>>}, extender : BOOLEAN]

InitMain ==
    /\ lines \in MainFiles
    /\ globs \in Namespaces
    /\ slab = EmptyDict
    /\ contours = EmptyDict
    /\ prev = EmptyDict
    /\ contoursUpDip = <<>>
    /\ file = "None"
    /\ out = <<>>
    /\ pc = "read"
    /\ err = "none"
    /\ ret = <<>>
    /\ call = NoCall

\* Where main goes on after a step: an exception ends the run.
Goto(next) == pc' = IF err' = "none" THEN next ELSE "failed"

Called(op) == call' = [NoCall EXCEPT !.op = op, !.n = call.n + 1]

\* self.contours.read()
MainRead ==
    /\ pc = "read"
    /\ Read
    /\ Called("read")
    /\ Goto("initialize")
    /\ UNCHANGED <<lines, contours, contoursUpDip, file, out, ret, prev, globs>>

\* self.extender.initialize(self.contours): the extender takes the reader's
\* dict itself, so what _decimate and _toXYZ do to it shows in both.
MainInitialize ==
    /\ pc = "initialize"
    /\ prev' = slab
    /\ IF globs.stride = 0
       THEN /\ contours' = slab                  \* self._decimate(stride): NameError
            /\ err' = "NameError"
       ELSE \E d \in DecimateOutcomes(slab, globs.stride) :
               IF d.err # "none"
               THEN contours' = d.contours /\ err' = d.err
               ELSE \E x \in ToXYZOutcomes(d.contours) :
                       contours' = x.contours /\ err' = x.err
    /\ slab' = contours'
    /\ Called("initialize")
    /\ Goto("addUpDipContours")
    /\ UNCHANGED <<lines, contoursUpDip, file, out, ret, globs>>

\* self.extender.addUpDipContours()
MainAddUpDipContours ==
    /\ pc = "addUpDipContours"
    /\ prev' = contours
    /\ AddUpDipContours(DefaultElev, 1, 0, DefaultTanNum, DefaultTanDen, DefaultExtendDist)
    /\ Called("addUpDipContours")
    /\ Goto("writeHeader")
    /\ UNCHANGED <<lines, slab, file, out, ret, globs>>

\* self.modeler.writeHeader()
MainWriteHeader ==
    /\ pc = "writeHeader"
    /\ WriteHeader
    /\ Called("writeHeader")
    /\ Goto("top.newSurface")
    /\ UNCHANGED <<lines, slab, contours, contoursUpDip, ret, prev, globs>>

\* A main that goes on to a surface's contours without calling newSurface:
\* the mutant of MainNewSurface.
MainNewSurfaceSkipped ==
    /\ pc \in {"top.newSurface", "bot.newSurface", "splay.newSurface"}
    /\ err' = "none"
    /\ Called("newSurface")
    /\ Goto(CASE pc = "top.newSurface" -> "top.getAllContours"
              [] pc = "bot.newSurface" -> "bot.getUpDipContours"
              [] OTHER -> "splay.first")
    /\ UNCHANGED <<lines, slab, contours, contoursUpDip, file, out, ret, prev, globs>>

\* self.modeler.newSurface(), for each of the three surfaces
MainNewSurface ==
    /\ pc \in {"top.newSurface", "bot.newSurface", "splay.newSurface"}
    /\ NewSurface
    /\ Called("newSurface")
    /\ Goto(CASE pc = "top.newSurface" -> "top.getAllContours"
              [] pc = "bot.newSurface" -> "bot.getUpDipContours"
              [] OTHER -> "splay.first")
    /\ UNCHANGED <<lines, slab, contours, contoursUpDip, ret, prev, globs>>

\* The list a for statement of main loops over.
MainQuery ==
    /\ pc \in {"top.getAllContours", "bot.getUpDipContours", "bot.getContours"}
    /\ LET e == CASE pc = "top.getAllContours" -> GetAllContoursErr(DefaultSpacing)
                  [] pc = "bot.getUpDipContours" -> GetUpDipContoursErr
                  [] OTHER -> GetContoursErr(DefaultSpacing)
       IN  /\ err' = e
           /\ ret' = IF e # "none" THEN <<>>
                     ELSE CASE pc = "top.getAllContours" -> GetAllContours(DefaultSpacing)
                            [] pc = "bot.getUpDipContours" -> GetUpDipContours
                            [] OTHER -> GetContours(DefaultSpacing)
    /\ Called(CASE pc = "top.getAllContours" -> "getAllContours"
                [] pc = "bot.getUpDipContours" -> "getUpDipContours"
                [] OTHER -> "getContours")
    /\ Goto(CASE pc = "top.getAllContours" -> "top.loop"
              [] pc = "bot.getUpDipContours" -> "bot.loopUpDip"
              [] OTHER -> "bot.loopReal")
    /\ UNCHANGED <<lines, slab, contours, contoursUpDip, file, out, prev, globs>>

\* Top of slab: self.modeler.addContour(contour)
MainTopAddContour ==
    /\ pc = "top.loop"
    /\ ret # <<>>
    /\ AddContour(Deref(Head(ret)))
    /\ ret' = Tail(ret)
    /\ call' = [NoCall EXCEPT !.op = "addContour", !.n = call.n + 1, !.points = Deref(Head(ret))]
    /\ Goto("top.loop")
    /\ UNCHANGED <<lines, slab, contours, contoursUpDip, prev, globs>>

\* contour[:,2] = value
SetDepth(points, value) == [j \in 1..Len(points) |-> <<points[j][1], points[j][2], value>>]

\* contour[:,0] += a; contour[:,1] += b; contour[:,2] += c
Shift(points, a, b, c) ==
    [j \in 1..Len(points) |-> <<points[j][1] + a, points[j][2] + b, points[j][3] + c>>]

\* Bottom of slab, the up-dip contours: the stored array is set to the depth
\* of the slab's bottom, then written.
MainBotUpDipAddContour ==
    /\ pc = "bot.loopUpDip"
    /\ ret # <<>>
    /\ LET r == Head(ret)
           moved == SetDepth(Deref(r), -SlabThickness)
       IN  /\ contoursUpDip' = <<[contoursUpDip[1] EXCEPT ![r.key] = moved]>>
           /\ AddContour(moved)
           /\ call' = [NoCall EXCEPT !.op = "addContour", !.n = call.n + 1, !.points = moved]
    /\ ret' = Tail(ret)
    /\ Goto("bot.loopUpDip")
    /\ UNCHANGED <<lines, slab, contours, prev, globs>>

\* Bottom of slab, the real contours: slabNormalDir is read from the module
\* namespace (a NameError when unbound); the stored array is shifted, then
\* written.
MainBotRealAddContour ==
    /\ pc = "bot.loopReal"
    /\ ret # <<>>
    /\ prev' = contours
    /\ IF globs.slabNormalDir = <<>>
       THEN /\ err' = "NameError"
            /\ call' = [NoCall EXCEPT !.op = "slabNormalDir", !.n = call.n + 1]
            /\ UNCHANGED <<contours, slab, file, out, ret>>
       ELSE LET r == Head(ret)
                n == globs.slabNormalDir
                moved == Shift(Deref(r), n[1] * SlabThickness, n[2] * SlabThickness,
                               n[3] * SlabThickness)
            IN  /\ contours' = [contours EXCEPT ![r.key] = moved]
                /\ slab' = contours'
                /\ AddContour(moved)
                /\ call' = [NoCall EXCEPT !.op = "addContour", !.n = call.n + 1, !.points = moved]
                /\ ret' = Tail(ret)
    /\ Goto("bot.loopReal")
    /\ UNCHANGED <<lines, contoursUpDip, globs>>

\* The end of a loop of the bottom surface's up-dip contours.
MainBotUpDipDone ==
    /\ pc = "bot.loopUpDip"
    /\ ret = <<>>
    /\ pc' = "bot.getContours"
    /\ UNCHANGED <<lines, slab, contours, contoursUpDip, file, out, err, ret, prev, call, globs>>

\* self.modeler.skinSurface(...) once a surface's loop is over
MainSkinSurface ==
    /\ \/ pc \in {"top.loop", "bot.loopReal"} /\ ret = <<>>
       \/ pc = "splay.skinSurface"
    /\ SkinSurface(CASE pc = "top.loop" -> "surf_slabtop.sat"
                     [] pc = "bot.loopReal" -> "surf_slabbot.sat"
                     [] OTHER -> "surf_splay.sat")
    /\ Called("skinSurface")
    /\ Goto(CASE pc = "top.loop" -> "bot.newSurface"
              [] pc = "bot.loopReal" -> "splay.newSurface"
              [] OTHER -> "close")
    /\ UNCHANGED <<lines, slab, contours, contoursUpDip, ret, prev, globs>>

\* Splay fault: contour = extender.contours[15], with extender read from the
\* module namespace (NameError when unbound, KeyError without contour 15);
\* the stored array is lowered, then written.
MainSplayFirst ==
    /\ pc = "splay.first"
    /\ prev' = contours
    /\ IF ~globs.extender \/ SplayKey \notin Keys(contours)
       THEN /\ err' = IF ~globs.extender THEN "NameError" ELSE "KeyError"
            /\ call' = [NoCall EXCEPT !.op = "extender.contours", !.n = call.n + 1]
            /\ UNCHANGED <<contours, slab, file, out>>
       ELSE LET moved == Shift(contours[SplayKey], 0, 0, -SplayDrop)
            IN  /\ contours' = [contours EXCEPT ![SplayKey] = moved]
                /\ slab' = contours'
                /\ AddContour(moved)
                /\ call' = [NoCall EXCEPT !.op = "addContour", !.n = call.n + 1, !.points = moved]
    /\ Goto("splay.second")
    /\ UNCHANGED <<lines, contoursUpDip, ret, globs>>

\* Splay fault: the same array raised to the surface and shifted, then written again.
MainSplaySecond ==
    /\ pc = "splay.second"
    /\ prev' = contours
    /\ LET moved == Shift(SetDepth(contours[SplayKey], SplayElev), -SplayShift, 0, 0)
       IN  /\ contours' = [contours EXCEPT ![SplayKey] = moved]
           /\ slab' = contours'
           /\ AddContour(moved)
           /\ call' = [NoCall EXCEPT !.op = "addContour", !.n = call.n + 1, !.points = moved]
    /\ Goto("splay.skinSurface")
    /\ UNCHANGED <<lines, contoursUpDip, ret, globs>>

\* self.modeler.close()
MainClose ==
    /\ pc = "close"
    /\ Close
    /\ Called("close")
    /\ Goto("done")
    /\ UNCHANGED <<lines, slab, contours, contoursUpDip, ret, prev, globs>>

NextMain ==
    \/ MainRead
    \/ MainInitialize
    \/ MainAddUpDipContours
    \/ MainWriteHeader
    \/ MainNewSurface
    \/ MainQuery
    \/ MainTopAddContour
    \/ MainBotUpDipAddContour
    \/ MainBotUpDipDone
    \/ MainBotRealAddContour
    \/ MainSkinSurface
    \/ MainSplayFirst
    \/ MainSplaySecond
    \/ MainClose

SpecMain == InitMain /\ [][NextMain]_vars

\* The run of main has ended, by returning or by an exception.
Terminated == pc \in {"done", "failed"}

\* C9: in every run in which the journal file was opened it is closed by
\* the time the run ends, also when a stage fails after writeHeader.
C9_StreamClosedWhenRunEnds ==
    Terminated => file # "open"

\* The line of the journal file that each emitter call writes first: the
\* header, "# New surface.", "# Contour", and for skinSurface its export line.
IsCallMark(c) == c.cmd \in {"# header", "# New surface.", "# Contour", "export acis"}

\* The emitter calls that wrote to the journal file, in the order of the file.
CallsWritten == SelectSeq(out, IsCallMark)

\* The order of the emitter calls as an automaton: where main is after the
\* call c when it was at q before, "bad" when c is out of order.
OrderStep(q, c) ==
    CASE q = "start" /\ c.cmd = "# header" -> "header"
      [] q = "header" /\ c.cmd = "# New surface." -> "top"
      [] q = "top.skinned" /\ c.cmd = "# New surface." -> "bottom"
      [] q = "bottom.skinned" /\ c.cmd = "# New surface." -> "splay"
      [] q \in {"top", "bottom", "splay"} /\ c.cmd = "# Contour" -> q
      [] q = "top" /\ c = Export("surf_slabtop.sat") -> "top.skinned"
      [] q = "bottom" /\ c = Export("surf_slabbot.sat") -> "bottom.skinned"
      [] q = "splay" /\ c = Export("surf_splay.sat") -> "splay.skinned"
      [] OTHER -> "bad"

RECURSIVE OrderFrom(_, _, _)
OrderFrom(marks, i, q) ==
    IF i > Len(marks) THEN q ELSE OrderFrom(marks, i + 1, OrderStep(q, marks[i]))

OrderState == OrderFrom(CallsWritten, 1, "start")

IsContourMark(c) == c.cmd = "# Contour"

\* C12: in every run of main the emitter calls made so far are in the
\* order writeHeader once and first, then for the top, the bottom and the
\* splay surface in turn one newSurface, the surface's addContour calls
\* and one skinSurface, then close; a run that returns has made all of them
\* with close last, the file is closed by nothing but that close, and
\* nothing is written and the file is not open until read, initialize
\* (decimate and project) and addUpDipContours have returned.
C12_EmitterCallsInOrder ==
    /\ OrderState # "bad"
    /\ pc = "done" => (OrderState = "splay.skinned" /\ file = "None" /\ call.op = "close")
    /\ (file = "None" /\ out # <<>>) => pc = "done"
    /\ (out # <<>> \/ file = "open") =>
          /\ contoursUpDip # <<>>
          /\ call.op \notin {"none", "read", "initialize", "addUpDipContours"}
    /\ pc \in {"read", "initialize", "addUpDipContours", "writeHeader"} =>
          (out = <<>> /\ file = "None")

\* A run that returned after writing the three surfaces, each with contours.
C12_Witness ==
    /\ pc = "done"
    /\ OrderState = "splay.skinned"
    /\ Len(SelectSeq(CallsWritten, IsContourMark)) >= 6


(***************************************************************************)
(* The projection, driven directly: _toXYZ and initialize are applied up   *)
(* to MaxCalls times in a row to every raw contour set over ProjectKeys    *)
(* with contours of 0..MaxRefLen points, as read from a file (longitude,   *)
(* latitude, depth in kilometres), under every binding of the name stride. *)
(***************************************************************************)
ProjectKeys == {1, 2}

\* The depth in kilometres of the points of the contour of depth key k in a
\* Slab 1.0 file.
RawDepth(k) == -k

\* A raw contour of n points of the depth key: point j is <<j - 1, 1, -key>>.
MkRaw(key, n) == [j \in 1..n |-> <<j - 1, 1, RawDepth(key)>>]

RawSetsOver(keys, lens) ==
    UNION {{[k \in K |-> MkRaw(k, len[k])] : len \in [K -> lens]} :
              K \in (SUBSET keys) \ {{}}}

InitProject ==
    /\ contours \in RawSetsOver(ProjectKeys, 0..MaxRefLen)
    /\ slab = contours
    /\ prev = contours
    /\ globs \in [stride : 0..MaxStride, slabNormalDir : {<<>>}, extender : {FALSE}]
    /\ lines = <<>>
    /\ contoursUpDip = <<>>
    /\ file = "None"
    /\ out = <<>>
    /\ pc = "api"
    /\ err = "none"
    /\ ret = <<>>
    /\ call = NoCall

\* initialize(slab) on the dict d: _decimate(stride) with the name stride
\* read from the module namespace (a NameError when unbound), then _toXYZ().
InitializeOutcomes(d, stride) ==
    IF stride = 0
    THEN {[contours |-> d, err |-> "NameError"]}
    ELSE UNION {IF o.err # "none" THEN {o} ELSE ToXYZOutcomes(o.contours) :
                   o \in DecimateOutcomes(d, stride)}

\* extender._toXYZ(): the arrays of the dict are changed in place, so the
\* reader's dict shows the same.
ToXYZCall ==
    /\ pc = "api"
    /\ err = "none"
    /\ call.n < MaxCalls
    /\ prev' = contours
    /\ \E o \in ToXYZOutcomes(contours) :
          /\ contours' = o.contours
          /\ err' = o.err
    /\ slab' = contours'
    /\ call' = [NoCall EXCEPT !.op = "toXYZ", !.n = call.n + 1]
    /\ UNCHANGED <<lines, contoursUpDip, file, out, pc, ret, globs>>

\* extender.initialize(slab), with slab the reader whose dict the extender holds.
InitializeCall ==
    /\ pc = "api"
    /\ err = "none"
    /\ call.n < MaxCalls
    /\ prev' = contours
    /\ \E o \in InitializeOutcomes(slab, globs.stride) :
          /\ contours' = o.contours
          /\ err' = o.err
    /\ slab' = contours'
    /\ call' = [NoCall EXCEPT !.op = "initialize", !.n = call.n + 1,
                              !.stride = globs.stride]
    /\ UNCHANGED <<lines, contoursUpDip, file, out, pc, ret, globs>>

NextProject ==
    \/ ToXYZCall
    \/ InitializeCall

SpecProject == InitProject /\ [][NextProject]_vars

\* The depths of the contour pts are all the value z.
AllDepths(pts, z) == \A j \in 1..Len(pts) : pts[j][3] = z

\* The last operation was a projection (alone or within initialize).
Projecting == call.op \in {"toXYZ", "initialize"}

\* C11: the first projection that returns multiplies every point's depth by
\* exactly 1000; a second projection of the same contours is rejected with
\* an error and changes nothing; so the depth of every point of every real
\* contour is always its raw kilometre value or 1000 times it.
C11_ProjectedAtMostOnce ==
    /\ (Projecting /\ call.n = 1 /\ err = "none") =>
          \A k \in Keys(contours) : AllDepths(contours[k], 1000 * RawDepth(k))
    /\ (Projecting /\ call.n >= 2) => (err # "none" /\ contours = prev)
    /\ \A k \in Keys(contours) : \A j \in 1..Len(contours[k]) :
          contours[k][j][3] \in {RawDepth(k), 1000 * RawDepth(k)}

====
